---- MODULE Spec2Model ----
(***************************************************************************)
(* Vocabulary capture-and-sync engine of the `lang` command line tool      *)
(* (src/lang/lang.py), its flashcard client (src/lang/anki.py) and the     *)
(* bulk `import` of its Chinese ancestor (src/lang/chinese.py), which      *)
(* writes the same vocabulary document: cmd_sync of lang.py reads the      *)
(* ancestor's field names and expects words that come from a bulk import.  *)
(*                                                                         *)
(* A word is a sequence of one-character strings, so that lower-casing is  *)
(* computed character by character.  The persisted vocabulary document is  *)
(* a sequence of entries (a JSON object keeps its insertion order); the    *)
(* flashcard service is a sequence of cards whose index is the note id.    *)
(* The null AnkiNoteID is 0 (`not word.get('AnkiNoteID')` is true of both).*)
(***************************************************************************)
EXTENDS Integers, Sequences, FiniteSets, TLC

\* ---------------------------------------------------------------- bounds
MaxClock == 2      \* number of `added` timestamps handed out
MaxRows  == 2      \* rows of an imported CSV file

\* ------------------------------------------------------- input alphabets
Words  == { <<"B", "o">>, <<"b", "o">>, <<"c", "a">> }
Levels == { 1, 2 }
NoLevel == -1      \* args.level is None
NoNote  == 0       \* AnkiNoteID is None
NoAdded == -1      \* the entry has no 'added'
Epoch   == 0       \* '1970-01-01', older than every timestamp handed out
Empty   == << >>   \* the empty string

\* ------------------------------------------------------- pure functions

\* str.lower() on one character
LowerChar(c) == IF c = "B" THEN "b" ELSE c

\* str.lower()
Lower(w) == [i \in DOMAIN w |-> LowerChar(w[i])]

LookupKeyRaw(primary, caseInsensitive) == primary

\* lookup_key = primary_key.lower() if case_insensitive_keys else primary_key
LookupKey(primary, caseInsensitive) ==
    IF caseInsensitive THEN Lower(primary) ELSE primary

Keys(data) == { data[i].key : i \in DOMAIN data }

HasKey(data, k) == \E i \in DOMAIN data : data[i].key = k

PutAlone(data, k, e) == << e >>

\* vocab_data[k] = entry : replaces in place, or appends a new key
Put(data, k, e) ==
    IF HasKey(data, k)
    THEN [i \in DOMAIN data |-> IF data[i].key = k THEN e ELSE data[i]]
    ELSE Append(data, e)

PopAll(data, k) == << >>

PopNewest(data, k) == Tail(data)

\* vocab_data.pop(k)
Pop(data, k) == SelectSeq(data, LAMBDA e : e.key # k)

\* key=lambda item: item[1].get('added', '1970-01-01')
SortKey(e) == IF e.added = NoAdded THEN Epoch ELSE e.added

InsertDescUnstable(s, e) ==
    LET n == Cardinality({ i \in DOMAIN s : SortKey(s[i]) > SortKey(e) })
    IN  SubSeq(s, 1, n) \o << e >> \o SubSeq(s, n + 1, Len(s))

\* one step of the stable descending sort: e goes after every element
\* whose key is greater or equal
InsertDesc(s, e) ==
    LET n == Cardinality({ i \in DOMAIN s : SortKey(s[i]) >= SortKey(e) })
    IN  SubSeq(s, 1, n) \o << e >> \o SubSeq(s, n + 1, Len(s))

RECURSIVE SortDesc(_)
SortDesc(s) ==
    IF s = << >> THEN << >>
    ELSE InsertDesc(SortDesc(SubSeq(s, 1, Len(s) - 1)), s[Len(s)])

SaveVocabAsIs(data) == data

\* save_vocab_data: the document written is the mapping sorted by `added`,
\* newest first (sorted(..., reverse=True) is stable)
SaveVocab(data) == SortDesc(data)

\* the undo slot
NoAction == [type |-> "none", key |-> Empty]

ForgetAction(k) == [type |-> "none", key |-> Empty]

NewAction(k) == [type |-> "new", key |-> k]

\* the value of an example field: a string, or a list of strings
Str(s) == [form |-> "str", items |-> << s >>]

List(xs) == [form |-> "list", items |-> xs]

\* an entry without example and grammar note, as cmd_import builds it
NewEntry(k, p, lvl, now) ==
    [key |-> k, primary |-> p, level |-> lvl, note |-> NoNote, added |-> now,
     example |-> Str(Empty), grammar |-> Empty]

\* the entry built by cmd_new from ai_data
EnrichedEntry(k, resp, lvl, now) ==
    [NewEntry(k, resp.primary, lvl, now)
        EXCEPT !.example = resp.example, !.grammar = resp.grammar]

\* ------------------------------------------------------------- state
VARIABLES
    ci,            \* profile: case_insensitive_keys
    use_levels,    \* profile: anki.use_levels, a deck per level
    special,       \* profile: the levels listed in levels.special
    lesson_mapped, \* profile: 'Lesson' is in anki.field_mapping
    doc,           \* the vocabulary file: "missing", "ok" (a JSON document),
                   \* "empty" or "truncated" (not JSON), "badutf8" (cut
                   \* inside a character)
    store,         \* the mapping a JSON parser reads in the vocabulary file:
                   \* nothing when the file is missing or is not JSON
    slot,          \* the persisted last-action file
    userLevel,     \* current_level of the persisted user config
    clock,         \* datetime.now()
    cards,         \* flashcard service: the notes, the index is the note id
    decks,         \* flashcard service: the deck names
    pc,            \* "idle", or "sync" inside the loop of cmd_sync
    vocab_data,    \* cmd_sync: the mapping in memory
    words_to_sync, \* cmd_sync: the unsynced entries, as positions in vocab_data
    pos,           \* cmd_sync: i, the position in words_to_sync
    created_count, \* cmd_sync
    updated_count, \* cmd_sync
    failed_count,  \* cmd_sync
    results,       \* history: what happened to each entry of words_to_sync
    calls,         \* history: the service calls made for the last entry
    deck_calls,    \* history: the createDeck calls of the run, each with the
                   \* deck name and whether it returned
    cards0,        \* history: the notes of the service when the run started
    cmd,           \* history: the command run last
    outcome,       \* history: what it reported
    prev,          \* history: what the command before it reported
    keysBefore,    \* history: key set of the document before the last command
    writes,        \* history: writes of the document by the last command
    file0,         \* history: the vocabulary file when the last save began
    requests,      \* history: requests the last command sent to the AI service
    steps          \* history: what the last command did, in order, of the
                   \* AI request, the read of the document (and the
                   \* recovery from one that is not JSON), its write and
                   \* the write of the slot (recorded for cmd_new)

profile   == << ci, use_levels, special, lesson_mapped >>
persisted == << doc, store, slot, userLevel, clock >>
service   == << cards, decks >>
syncVars  == << vocab_data, words_to_sync, pos, created_count, updated_count,
                failed_count, results, calls, deck_calls, cards0 >>
history   == << cmd, outcome, prev, keysBefore, writes, file0, requests, steps >>

vars == << profile, persisted, service, pc, syncVars, history >>

DefaultLevel == 1

NoRun ==
    /\ vocab_data = << >>
    /\ words_to_sync = << >>
    /\ pos = 0
    /\ created_count = 0
    /\ updated_count = 0
    /\ failed_count = 0
    /\ results = << >>
    /\ calls = << >>
    /\ deck_calls = << >>
    /\ cards0 = << >>

\* a vocabulary file, by its form and the mapping read in it
File(form, entries) == [doc |-> form, store |-> entries]

NoFile == File("missing", << >>)

\* nothing stored, nothing in the service, no command run
Started ==
    /\ doc = "missing"
    /\ store = << >>
    /\ slot = NoAction
    /\ userLevel = DefaultLevel
    /\ clock = 0
    /\ cards = << >>
    /\ decks = {}
    /\ pc = "idle"
    /\ NoRun
    /\ cmd = "none"
    /\ outcome = "none"
    /\ prev = "other"
    /\ keysBefore = {}
    /\ writes = 0
    /\ file0 = NoFile
    /\ requests = 0
    /\ steps = << >>

\* a profile with a deck per level, no special level and a Lesson field
Init ==
    /\ ci \in BOOLEAN
    /\ use_levels = TRUE
    /\ special = {}
    /\ lesson_mapped = TRUE
    /\ Started

\* what the properties need of the report of a command once the next one
\* has run: an added word, an undone one, an interrupted sync, a sync that
\* ended without failure
Report(out, failed) ==
    IF out \in {"added", "undone", "interrupted"} THEN out
    ELSE IF out = "synced" /\ failed = 0 THEN "synced"
    ELSE "other"

\* a command is started from the shell, sends n requests to the AI
\* service and does ops: the history moves one place
BeginDoing(name, n, ops) ==
    /\ pc = "idle"
    /\ cmd' = name
    /\ prev' = Report(outcome, failed_count)
    /\ keysBefore' = Keys(store)
    /\ requests' = n
    /\ steps' = ops

\* the steps are recorded for cmd_new only
BeginWith(name, n) == BeginDoing(name, n, << >>)

\* only cmd_new calls enrich_with_ai
Begin(name) == BeginWith(name, 0)

\* the commands that do not sync leave no run behind
ResetRun ==
    /\ vocab_data' = << >>
    /\ words_to_sync' = << >>
    /\ pos' = 0
    /\ created_count' = 0
    /\ updated_count' = 0
    /\ failed_count' = 0
    /\ results' = << >>
    /\ calls' = << >>
    /\ deck_calls' = << >>
    /\ cards0' = << >>

LoadRaisesMalformed(form) == form \in {"empty", "truncated", "badutf8"}

\* open(..., encoding='utf-8') and f.read(): bytes that are not UTF-8 raise
\* UnicodeDecodeError, which `except json.JSONDecodeError` does not catch
LoadRaises(form) == form = "badutf8"

\* load_vocab_data: {} when the file does not exist, {} on JSONDecodeError
LoadVocab(form, entries) == IF form = "ok" THEN entries ELSE << >>

\* ------------------------------------------------------------ cmd_level
Level(l) ==
    /\ Begin("level")
    /\ userLevel' = l
    /\ outcome' = "level"
    /\ writes' = 0
    /\ ResetRun
    /\ UNCHANGED << profile, doc, store, slot, clock, service, pc, file0 >>

\* -------------------------------------------------------------- cmd_new

\* what enrich_with_ai returns or raises: no API key, a failed or
\* unparsable response, or a payload (whose primary may be absent or empty)
AiResponses ==
    { [kind |-> "nokey",  primary |-> Empty,
       example |-> Str(Empty), grammar |-> Empty],
      [kind |-> "failed", primary |-> Empty,
       example |-> Str(Empty), grammar |-> Empty] }
    \cup [kind : {"payload"}, primary : Words \cup {Empty},
          example : {Str(Empty)}, grammar : {Empty}]

CurrentLevelConfigured(lvlArg, configured) == configured

\* current_level: the --level flag if given, else the configured level
CurrentLevel(lvlArg, configured) ==
    IF lvlArg # NoLevel THEN lvlArg ELSE configured

AiRequestsAlways(resp) == 1

\* `if not api_key: raise ValueError` comes before requests.post, which
\* every other outcome of enrich_with_ai has gone through
AiRequests(resp) == IF resp.kind = "nokey" THEN 0 ELSE 1

\* enrich_with_ai raised, or `if not primary_key: raise ValueError`
EnrichFails(resp) == resp.kind # "payload" \/ resp.primary = Empty

LastActionKeyPrimary(k, primary) == primary

\* save_last_action(ctx, {'type': 'new', 'key': lookup_key})
LastActionKey(k, primary) == k

\* a sequence of one step when the condition holds, of none otherwise
Step(cond, name) == IF cond THEN << name >> ELSE << >>

NewStepsReadFirst(resp, form, rejected, killed) ==
    LET asked    == ~LoadRaises(form)
        enriched == asked /\ ~EnrichFails(resp)
        saved    == enriched /\ ~rejected
    IN  << "read" >>
        \o Step(form \in {"empty", "truncated"}, "recover")
        \o Step(asked /\ resp.kind # "nokey", "request")
        \o Step(saved, "write")
        \o Step(saved /\ ~killed, "slot")

\* the order of cmd_new: enrich_with_ai (which posts the request unless
\* the API key is missing), then load_vocab_data once the payload has a
\* primary, which recovers from a file that is not JSON by returning the
\* empty mapping, then save_vocab_data unless the load raised or the key
\* is rejected, then save_last_action once save_vocab_data has returned
NewSteps(resp, form, rejected, killed) ==
    LET enriched == ~EnrichFails(resp)
        saved    == enriched /\ ~LoadRaises(form) /\ ~rejected
    IN  Step(resp.kind # "nokey", "request")
        \o Step(enriched, "read")
        \o Step(enriched /\ form \in {"empty", "truncated"}, "recover")
        \o Step(saved, "write")
        \o Step(saved /\ ~killed, "slot")

NewRejectsForced(data, k, force) == HasKey(data, k)

\* `if lookup_key in vocab_data and not args.force: ... return`
NewRejects(data, k, force) == HasKey(data, k) /\ ~force

New(force, lvlArg, resp) ==
    LET lvl == CurrentLevel(lvlArg, userLevel)
        k   == LookupKey(resp.primary, ci)
        e   == EnrichedEntry(k, resp, lvl, clock + 1)
        data == LoadVocab(doc, store)
    IN  /\ BeginDoing("new", AiRequests(resp),
                       NewSteps(resp, doc, NewRejects(data, k, force), FALSE))
        /\ IF EnrichFails(resp) \/ LoadRaises(doc)
           THEN /\ outcome' = "error"
                /\ writes' = 0
                /\ UNCHANGED << doc, store, slot, clock >>
           ELSE IF NewRejects(data, k, force)
           THEN /\ outcome' = "exists"
                /\ writes' = 0
                /\ UNCHANGED << doc, store, slot, clock >>
           ELSE /\ clock < MaxClock
                /\ clock' = clock + 1
                /\ doc' = "ok"
                /\ store' = SaveVocab(Put(data, k, e))
                /\ writes' = 1
                /\ slot' = NewAction(LastActionKey(k, resp.primary))
                /\ outcome' = IF HasKey(data, k) THEN "replaced" ELSE "added"
        /\ ResetRun
        /\ UNCHANGED << profile, userLevel, service, pc, file0 >>

\* ------------------------------------------------------------- cmd_undo

UndoKeepsSlot(s) == s

\* clear_last_action
ClearLastAction(s) == NoAction

Undo ==
    /\ Begin("undo")
    /\ IF slot = NoAction \/ slot.type # "new"
       THEN /\ outcome' = "nothing"
            /\ writes' = 0
            /\ UNCHANGED << doc, store, slot >>
       ELSE IF LoadRaises(doc)
       THEN /\ outcome' = "raised"
            /\ writes' = 0
            /\ UNCHANGED << doc, store, slot >>
       ELSE IF HasKey(LoadVocab(doc, store), slot.key)
       THEN /\ doc' = "ok"
            /\ store' = SaveVocab(Pop(LoadVocab(doc, store), slot.key))
            /\ writes' = 1
            /\ slot' = ClearLastAction(slot)
            /\ outcome' = "undone"
       ELSE /\ outcome' = "stale"
            /\ writes' = 0
            /\ slot' = ClearLastAction(slot)
            /\ UNCHANGED << doc, store >>
    /\ ResetRun
    /\ UNCHANGED << profile, userLevel, clock, service, pc, file0 >>

\* ------------------------------------------- cmd_import (Chinese ancestor)

\* the Hanzi column of a CSV row: a word, or nothing
CsvWords == { <<"B", "o">>, <<"c", "a">>, Empty }

\* the CSV files: up to MaxRows rows
CsvFiles == UNION { [1..n -> CsvWords] : n \in 0..MaxRows }

RECURSIVE ImportRowsOverwrite(_, _, _, _)
ImportRowsOverwrite(data, rows, lvl, now) ==
    IF rows = << >> THEN data
    ELSE LET hanzi == Head(rows)
         IN  IF hanzi = Empty
             THEN ImportRowsOverwrite(data, Tail(rows), lvl, now)
             ELSE ImportRowsOverwrite(
                    Put(data, hanzi, NewEntry(hanzi, hanzi, lvl, now + 1)),
                    Tail(rows), lvl, now + 1)

\* the loop of cmd_import: a row is skipped when its Hanzi is empty or
\* already a key; otherwise it is stored under the Hanzi as it is written
RECURSIVE ImportRows(_, _, _, _)
ImportRows(data, rows, lvl, now) ==
    IF rows = << >> THEN data
    ELSE LET hanzi == Head(rows)
         IN  IF hanzi = Empty \/ HasKey(data, hanzi)
             THEN ImportRows(data, Tail(rows), lvl, now)
             ELSE ImportRows(
                    Put(data, hanzi, NewEntry(hanzi, hanzi, lvl, now + 1)),
                    Tail(rows), lvl, now + 1)

Import(rows) ==
    LET old   == LoadVocab(doc, store)
        data  == ImportRows(old, rows, userLevel, clock)
        added == Len(data) - Len(old)
    IN  /\ Begin("import")
        /\ IF LoadRaises(doc)
           THEN /\ outcome' = "raised"
                /\ writes' = 0
                /\ UNCHANGED << doc, store, clock >>
           ELSE /\ clock + added <= MaxClock
                /\ clock' = clock + added
                /\ doc' = "ok"
                /\ store' = SaveVocab(data)
                /\ writes' = 1
                /\ outcome' = "imported"
        /\ ResetRun
        /\ UNCHANGED << profile, slot, userLevel, service, pc, file0 >>

\* ------------------------------------------------------------- cmd_sync

\* words_to_sync = [word for word in vocab_data.values()
\*                  if not word.get('AnkiNoteID')]
RECURSIVE Unsynced(_, _)
Unsynced(data, i) ==
    IF i > Len(data) THEN << >>
    ELSE (IF data[i].note = NoNote THEN << i >> ELSE << >>)
         \o Unsynced(data, i + 1)

WordsToSyncAll(data) == [i \in 1..Len(data) |-> i]

WordsToSync(data) == Unsynced(data, 1)

\* level = word.get('Level') or ... or ctx.levels['default']
SyncLevel(lvl) == IF lvl = 0 THEN DefaultLevel ELSE lvl

\* a deck name: a configured text, a separator, and the text of a level or
\* the name the special table gives a level
Deck(base, sep, kind, n) == [base |-> base, sep |-> sep, kind |-> kind, n |-> n]

\* level_str in special_levels
IsSpecial(level) == level \in special

DeckNameByLevel(lvl) == Deck("deck_prefix", "", "level", SyncLevel(lvl))

\* deck_name of cmd_sync for a word whose 'Level' is lvl: with use_levels
\* deck_prefix + the special name or deck_prefix + level, without it
\* deck_name + '::' + the special name or deck_name
DeckName(lvl) ==
    LET level == SyncLevel(lvl)
    IN  IF use_levels
        THEN IF IsSpecial(level)
             THEN Deck("deck_prefix", "", "special", level)
             ELSE Deck("deck_prefix", "", "level", level)
        ELSE IF IsSpecial(level)
             THEN Deck("deck_name", "::", "special", level)
             ELSE Deck("deck_name", "", "none", 0)

\* AnkiConnect findNotes "<field>:<primary>": the ids of the notes whose
\* primary field is the value, oldest first
RECURSIVE FindFrom(_, _, _)
FindFrom(notes, primary, i) ==
    IF i > Len(notes) THEN << >>
    ELSE (IF notes[i].primary = primary THEN << i >> ELSE << >>)
         \o FindFrom(notes, primary, i + 1)

FindNotesNone(notes, primary) == << >>

FindNotesAny(notes, primary) == [i \in 1..Len(notes) |-> i]

FindNotes(notes, primary) == FindFrom(notes, primary, 1)

\* example_full.split('|')[0]: the text before the first '|'
RECURSIVE BeforeBar(_)
BeforeBar(t) ==
    IF t = << >> \/ Head(t) = "|" THEN << >>
    ELSE << Head(t) >> \o BeforeBar(Tail(t))

\* str.strip(): the blanks at both ends are dropped
RECURSIVE Strip(_)
Strip(t) ==
    IF t = << >> THEN << >>
    ELSE IF Head(t) = " " THEN Strip(Tail(t))
    ELSE IF t[Len(t)] = " " THEN Strip(SubSeq(t, 1, Len(t) - 1))
    ELSE t

\* '|' in example_full
HasBar(t) == \E i \in DOMAIN t : t[i] = "|"

ExampleAsIs(raw) == raw

\* example: of a list that is not empty the first element, cut before its
\* first '|' and stripped when it has one; any other value as it is
ExampleText(raw) ==
    IF raw.form = "list" /\ raw.items # << >>
    THEN LET example_full == raw.items[1]
         IN  IF HasBar(example_full)
             THEN Str(Strip(BeforeBar(example_full)))
             ELSE Str(example_full)
    ELSE raw

\* the text an f-string makes of the example: a string as it is, the
\* empty list as '[]'
Format(example) ==
    IF example.form = "str" THEN example.items[1] ELSE << "[", "]" >>

\* the markup between the example and the grammar note, and after it
SepOpen  == "<br><hr><div style=...>"
SepClose == "</div>"

\* combined_example
CombinedExample(raw, grammar) ==
    IF grammar # Empty
    THEN Str(Format(ExampleText(raw)) \o << SepOpen >> \o grammar
             \o << SepClose >>)
    ELSE ExampleText(raw)

NoLesson == -1     \* anki_fields has no Lesson

\* anki_fields[field_mapping['Lesson']] = type + ' ' + level, for a profile
\* with use_levels and a mapped Lesson; the level stands for the text
Lesson(lvl) ==
    IF use_levels /\ lesson_mapped THEN SyncLevel(lvl) ELSE NoLesson

TagByLevel(lvl) == SyncLevel(lvl)

\* tag: tag_prefix + level for a profile with use_levels and a mapped
\* Lesson, tag_prefix alone (NoLevel) for any other; the level stands for
\* the text
Tag(lvl) ==
    IF use_levels /\ lesson_mapped THEN SyncLevel(lvl) ELSE NoLevel

\* anki_fields: the mapped fields of the word
AnkiFields(w) ==
    [primary |-> w.primary,
     example |-> CombinedExample(w.example, w.grammar),
     lesson  |-> Lesson(w.level)]

\* the note built by add_note from deck_name, anki_fields and tags
Note(w) ==
    [primary |-> AnkiFields(w).primary,
     example |-> AnkiFields(w).example,
     lesson  |-> AnkiFields(w).lesson,
     deck    |-> DeckName(w.level),
     tag     |-> Tag(w.level)]

\* update_note_fields: the fields of the note are replaced, its deck and
\* its tags are not
UpdateNote(notes, id, w) ==
    [notes EXCEPT ![id].primary = AnkiFields(w).primary,
                  ![id].example = AnkiFields(w).example,
                  ![id].lesson  = IF AnkiFields(w).lesson = NoLesson THEN @
                                  ELSE AnkiFields(w).lesson]

MarkNoteUnderPrimary(data, self, primary, id) ==
    Put(data, primary, [data[self] EXCEPT !.key = primary, !.note = id])

\* for key, entry in vocab_data.items():
\*     if entry.get(primary) == primary_value:
\*         vocab_data[key]['AnkiNoteID'] = note_id; break
\* (self, the position of the word being synced, is not used by the code)
MarkNote(data, self, primary, id) ==
    IF \E j \in DOMAIN data : data[j].primary = primary
    THEN LET j == CHOOSE j \in DOMAIN data :
                    /\ data[j].primary = primary
                    /\ \A h \in 1..(j - 1) : data[h].primary # primary
         IN  [data EXCEPT ![j].note = id]
    ELSE data

PlanCreatesAlways(w, notes, names) ==
    << "deckNames", "createDeck", "findNotes" >>
    \o (IF FindNotes(notes, w.primary) # << >>
        THEN << "updateNoteFields" >> ELSE << "addNote" >>)

\* the service calls cmd_sync makes for one word, in order, when none fails
Plan(w, notes, names) ==
    << "deckNames" >>
    \o (IF DeckName(w.level) \in names THEN << >> ELSE << "createDeck" >>)
    \o << "findNotes" >>
    \o (IF FindNotes(notes, w.primary) # << >>
        THEN << "updateNoteFields" >> ELSE << "addNote" >>)

CountedOnce(n) == 1

\* created_count += 1, updated_count += 1, failed_count += 1
Counted(n) == n + 1

NextPosRetry(p, failed) == IF failed THEN p ELSE p + 1

\* for i, word in enumerate(words_to_sync, 1): the loop goes on to the
\* next word whether the pass has failed or not
NextPos(p, failed) == p + 1

LoopSavesAlways == TRUE

\* the body of the loop does not call save_vocab_data
LoopSaves == FALSE

\* get_anki_connect, load_vocab_data and the two early returns
SyncStart(conn) ==
    /\ Begin("sync")
    /\ writes' = 0
    /\ IF conn = "down"
       THEN /\ outcome' = "noconn"
            /\ ResetRun
            /\ UNCHANGED pc
       ELSE IF LoadRaises(doc)
       THEN /\ outcome' = "raised"
            /\ ResetRun
            /\ UNCHANGED pc
       ELSE IF LoadVocab(doc, store) = << >>
       THEN /\ outcome' = "empty"
            /\ ResetRun
            /\ UNCHANGED pc
       ELSE IF WordsToSync(LoadVocab(doc, store)) = << >>
       THEN /\ outcome' = "allsynced"
            /\ ResetRun
            /\ UNCHANGED pc
       ELSE /\ outcome' = "running"
            /\ pc' = "sync"
            /\ vocab_data' = LoadVocab(doc, store)
            /\ words_to_sync' = WordsToSync(LoadVocab(doc, store))
            /\ pos' = 1
            /\ created_count' = 0
            /\ updated_count' = 0
            /\ failed_count' = 0
            /\ results' = << >>
            /\ calls' = << >>
            /\ deck_calls' = << >>
            /\ cards0' = cards
    /\ UNCHANGED << profile, persisted, service, file0 >>

\* one pass of the loop for words_to_sync[pos]; failAt names the call of
\* the plan that raises (0: none).  The pass for the last word is followed
\* by save_vocab_data and the summary.
SyncStep(failAt) ==
    LET self  == words_to_sync[pos]
        w     == vocab_data[self]
        plan  == Plan(w, cards, decks)
        found == FindNotes(cards, w.primary)
        made  == IF failAt = 0 THEN plan ELSE SubSeq(plan, 1, failAt)
        deckMade == \E i \in DOMAIN plan :
                       plan[i] = "createDeck" /\ (failAt = 0 \/ i < failAt)
        last  == pos = Len(words_to_sync)
    IN  /\ pc = "sync"
        /\ failAt \in 0..Len(plan)
        /\ calls' = made
        /\ deck_calls' =
              IF \E i \in DOMAIN made : made[i] = "createDeck"
              THEN Append(deck_calls,
                          [name |-> DeckName(w.level), ok |-> deckMade])
              ELSE deck_calls
        /\ decks' = IF deckMade THEN decks \cup {DeckName(w.level)} ELSE decks
        /\ IF failAt # 0
           THEN /\ failed_count' = Counted(failed_count)
                /\ results' = Append(results, "failed")
                /\ UNCHANGED << cards, vocab_data, created_count,
                                updated_count >>
           ELSE IF found # << >>
           THEN /\ cards' = UpdateNote(cards, found[1], w)
                /\ updated_count' = Counted(updated_count)
                /\ vocab_data' = MarkNote(vocab_data, self, w.primary, found[1])
                /\ results' = Append(results, "updated")
                /\ UNCHANGED << created_count, failed_count >>
           ELSE /\ cards' = Append(cards, Note(w))
                /\ vocab_data' =
                      MarkNote(vocab_data, self, w.primary, Len(cards) + 1)
                /\ created_count' = Counted(created_count)
                /\ results' = Append(results, "created")
                /\ UNCHANGED << updated_count, failed_count >>
        /\ pos' = NextPos(pos, failAt # 0)
        /\ IF last
           THEN /\ doc' = "ok"
                /\ store' = SaveVocab(vocab_data')
                /\ writes' = writes + 1 + (IF LoopSaves THEN 1 ELSE 0)
                /\ outcome' = "synced"
                /\ pc' = "idle"
           ELSE /\ doc' = IF LoopSaves THEN "ok" ELSE doc
                /\ store' = IF LoopSaves THEN SaveVocab(vocab_data') ELSE store
                /\ writes' = writes + (IF LoopSaves THEN 1 ELSE 0)
                /\ UNCHANGED << outcome, pc >>
        /\ UNCHANGED << profile, slot, userLevel, clock, words_to_sync, cards0,
                        cmd, prev, keysBefore, file0, requests, steps >>

\* the process is killed inside the loop: what is in memory is lost
SyncInterrupt ==
    /\ pc = "sync"
    /\ pc' = "idle"
    /\ outcome' = "interrupted"
    /\ UNCHANGED << profile, persisted, service, syncVars, cmd, prev,
                    keysBefore, writes, file0, requests, steps >>

\* the commands, with the levels given on the command line drawn from lv
NextWith(lv) ==
    \/ \E l \in lv : Level(l)
    \/ \E force \in BOOLEAN, lvlArg \in {NoLevel} \cup lv,
          resp \in AiResponses : New(force, lvlArg, resp)
    \/ Undo
    \/ \E rows \in CsvFiles : Import(rows)
    \/ \E conn \in {"up", "down"} : SyncStart(conn)
    \/ \E failAt \in 0..4 : SyncStep(failAt)
    \/ SyncInterrupt

\* every word at the default level
Next == NextWith({DefaultLevel})

Spec == Init /\ [][Next]_vars

\* a pass of the loop of cmd_sync
SyncPass == \E failAt \in 0..4 : SyncStep(failAt)

\* the commands when no process is killed: a command that has been
\* started goes on, so the loop of cmd_sync takes its next pass
NextRun ==
    \/ \E l \in {DefaultLevel} : Level(l)
    \/ \E force \in BOOLEAN, lvlArg \in {NoLevel, DefaultLevel},
          resp \in AiResponses : New(force, lvlArg, resp)
    \/ Undo
    \/ \E rows \in CsvFiles : Import(rows)
    \/ \E conn \in {"up", "down"} : SyncStart(conn)
    \/ SyncPass

SpecRun == Init /\ [][NextRun]_vars /\ WF_vars(SyncPass)

\* the commands of lang.py alone: no bulk import into the document
NextLang ==
    \/ \E l \in {DefaultLevel} : Level(l)
    \/ \E force \in BOOLEAN, lvlArg \in {NoLevel, DefaultLevel},
          resp \in AiResponses : New(force, lvlArg, resp)
    \/ Undo
    \/ \E conn \in {"up", "down"} : SyncStart(conn)
    \/ \E failAt \in 0..4 : SyncStep(failAt)
    \/ SyncInterrupt

SpecLang == Init /\ [][NextLang]_vars

\* ------------------------------- migrate_csv_to_json (Chinese ancestor)

\* for row in reader: if hanzi: row['added'] = now; vocab_dict[hanzi] = row
RECURSIVE MigrateRows(_, _, _)
MigrateRows(data, rows, now) ==
    IF rows = << >> THEN data
    ELSE LET hanzi == Head(rows)
         IN  IF hanzi = Empty
             THEN MigrateRows(data, Tail(rows), now)
             ELSE MigrateRows(
                    Put(data, hanzi,
                        NewEntry(hanzi, hanzi, DefaultLevel, now + 1)),
                    Tail(rows), now + 1)

\* the one-time migration of the old CSV list, run by the ancestor before
\* its commands while there is no JSON document: the rows are written in
\* the order of the CSV file, oldest timestamp first, without sorting
Migrate(rows) ==
    LET stamped == Len(SelectSeq(rows, LAMBDA h : h # Empty))
    IN  /\ Begin("migrate")
        /\ doc = "missing"
        /\ clock + stamped <= MaxClock
        /\ clock' = clock + stamped
        /\ doc' = "ok"
        /\ store' = MigrateRows(<< >>, rows, clock)
        /\ writes' = 1
        /\ outcome' = "migrated"
        /\ ResetRun
        /\ UNCHANGED << profile, slot, userLevel, service, pc, file0 >>

\* the commands, on a document that may come from the migration
NextMigrated ==
    \/ \E rows \in CsvFiles : Migrate(rows)
    \/ Next

SpecMigrated == Init /\ [][NextMigrated]_vars

\* ------------------------------------------------ the vocabulary file
\* load_vocab_data and save_vocab_data step by step, for one process that
\* edits the mapping in memory between a load and a save

\* the keys and timestamps of the entries edited in memory
MemKeys == { <<"b", "o">>, <<"c", "a">> }
Addeds  == { NoAdded } \cup (1..MaxClock)

FileLoad ==
    /\ pc = "idle"
    /\ prev' = outcome
    /\ IF LoadRaises(doc)
       THEN /\ outcome' = "raised"
            /\ UNCHANGED vocab_data
       ELSE /\ outcome' = IF outcome = "saved" THEN "reloaded" ELSE "loaded"
            /\ vocab_data' = LoadVocab(doc, store)
    /\ UNCHANGED << profile, persisted, service, pc, words_to_sync, pos,
                    created_count, updated_count, failed_count, results,
                    calls, deck_calls, cards0, cmd, keysBefore, writes,
                    file0, requests, steps >>

\* vocab_data[k] = entry
MemPut(k, a) ==
    /\ pc = "idle"
    /\ prev' = outcome
    /\ outcome' = "edited"
    /\ vocab_data' = Put(vocab_data, k, [NewEntry(k, k, DefaultLevel, a)
                                            EXCEPT !.added = a])
    /\ UNCHANGED << profile, persisted, service, pc, words_to_sync, pos,
                    created_count, updated_count, failed_count, results,
                    calls, deck_calls, cards0, cmd, keysBefore, writes,
                    file0, requests, steps >>

\* vocab_data.pop(k)
MemPop(k) ==
    /\ pc = "idle"
    /\ HasKey(vocab_data, k)
    /\ prev' = outcome
    /\ outcome' = "edited"
    /\ vocab_data' = Pop(vocab_data, k)
    /\ UNCHANGED << profile, persisted, service, pc, words_to_sync, pos,
                    created_count, updated_count, failed_count, results,
                    calls, deck_calls, cards0, cmd, keysBefore, writes,
                    file0, requests, steps >>

\* open(ctx.vocab_file, 'w'): the file is truncated to nothing
SaveOpen ==
    /\ pc = "idle"
    /\ pc' = "save"
    /\ file0' = File(doc, store)
    /\ doc' = "empty"
    /\ store' = << >>
    /\ UNCHANGED << profile, slot, userLevel, clock, service, syncVars, cmd,
                    outcome, prev, keysBefore, writes, requests, steps >>

\* json.dump fills the buffer of the file object, and a full buffer is
\* written out: the file holds the first bytes of the text, which end
\* between two characters or inside one (ensure_ascii=False)
SaveFlush(form) ==
    /\ pc = "save"
    /\ vocab_data # << >>
    /\ doc' = form
    /\ UNCHANGED << profile, store, slot, userLevel, clock, service, pc,
                    syncVars, history >>

\* the end of the `with` block: the rest of the text is written out
SaveClose ==
    /\ pc = "save"
    /\ pc' = "idle"
    /\ doc' = "ok"
    /\ store' = SaveVocab(vocab_data)
    /\ prev' = outcome
    /\ outcome' = "saved"
    /\ UNCHANGED << profile, slot, userLevel, clock, service, syncVars, cmd,
                    keysBefore, writes, file0, requests, steps >>

\* the process is killed inside save_vocab_data; the next one starts with
\* nothing in memory
SaveKill ==
    /\ pc = "save"
    /\ pc' = "idle"
    /\ vocab_data' = << >>
    /\ prev' = outcome
    /\ outcome' = "killed"
    /\ UNCHANGED << profile, persisted, service, words_to_sync, pos,
                    created_count, updated_count, failed_count, results,
                    calls, deck_calls, cards0, cmd, keysBefore, writes,
                    file0, requests, steps >>

NextFile ==
    \/ FileLoad
    \/ \E k \in MemKeys, a \in Addeds : MemPut(k, a)
    \/ \E k \in MemKeys : MemPop(k)
    \/ SaveOpen
    \/ \E form \in {"truncated", "badutf8"} : SaveFlush(form)
    \/ SaveClose
    \/ SaveKill

SpecFile == Init /\ [][NextFile]_vars

\* --------------------------------------------- the profiles and levels

\* levels of a profile: 0 (a miscellaneous level), the default, one more
ProfileLevels == { 0, DefaultLevel, 2 }

\* the levels a profile lists in its special table
SpecialTables == { {}, {2}, {0, 2} }

\* any profile with case-insensitive keys
InitProfiles ==
    /\ ci = TRUE
    /\ use_levels \in BOOLEAN
    /\ special \in SpecialTables
    /\ lesson_mapped \in BOOLEAN
    /\ Started

\* what enrich_with_ai returns when it does not fail
Payloads == { resp \in AiResponses : ~EnrichFails(resp) }

\* an enriched `new` at any level and `sync`, with a service that may fail
NextProfiles ==
    \/ \E lvlArg \in {NoLevel} \cup ProfileLevels, resp \in Payloads :
          New(FALSE, lvlArg, resp)
    \/ SyncStart("up")
    \/ \E failAt \in 0..4 : SyncStep(failAt)

SpecProfiles == InitProfiles /\ [][NextProfiles]_vars

\* ------------------------------------------- the examples and grammar

\* example values: strings with and without a '|', lists whose first
\* element has one or not, the empty list
Examples ==
    { Str(Empty), Str(<< "e" >>), Str(<< "e", "|", "t" >>),
      List(<< >>), List(<< << "e" >> >>),
      List(<< << "e", " ", "|", " ", "t" >>, << "f" >> >>) }

Grammars == { Empty, << "g" >> }

\* what enrich_with_ai returns for one phrase, with any example and note
RichPayloads ==
    [kind : {"payload"}, primary : { << "c", "a" >> },
     example : Examples, grammar : Grammars]

\* `new` and `new --force` of one phrase with any example, and `sync`
NextFields ==
    \/ \E force \in BOOLEAN, resp \in RichPayloads :
          New(force, NoLevel, resp)
    \/ SyncStart("up")
    \/ \E failAt \in 0..4 : SyncStep(failAt)

SpecFields == InitProfiles /\ [][NextFields]_vars

\* ------------------------------------------------- the bulk import

\* words are added, imported from CSV files and synced: no call fails,
\* the level and the force flag are left alone
NextImport ==
    \/ \E resp \in Payloads : New(FALSE, NoLevel, resp)
    \/ \E rows \in CsvFiles : Import(rows)
    \/ SyncStart("up")
    \/ SyncStep(0)

SpecImport == Init /\ [][NextImport]_vars

\* ------------------------------------------------- the current level

\* the level is set, and words are added with and without --level
NextLevels ==
    \/ \E l \in Levels : Level(l)
    \/ \E force \in BOOLEAN, lvlArg \in {NoLevel} \cup ProfileLevels,
          resp \in Payloads : New(force, lvlArg, resp)

SpecLevels == Init /\ [][NextLevels]_vars

\* ------------------------------------------------- words added again

\* words are added, with and without --force, and synced while the
\* service answers every call
NextReadd ==
    \/ \E force \in BOOLEAN, resp \in Payloads : New(force, NoLevel, resp)
    \/ SyncStart("up")
    \/ SyncStep(0)

SpecReadd == Init /\ [][NextReadd]_vars

\* ------------------------------------- a command killed inside its save

\* what is left of the document when the process is killed inside
\* save_vocab_data: nothing, or the first bytes of the text, which end
\* between two characters or inside one
KillForms == { "empty", "truncated", "badutf8" }

\* cmd_new killed inside save_vocab_data: save_last_action is not reached
NewKilled(force, lvlArg, resp, form) ==
    LET k    == LookupKey(resp.primary, ci)
        data == LoadVocab(doc, store)
    IN  /\ BeginDoing("new", AiRequests(resp),
                       NewSteps(resp, doc, FALSE, TRUE))
        /\ ~EnrichFails(resp)
        /\ ~LoadRaises(doc)
        /\ ~NewRejects(data, k, force)
        /\ doc' = form
        /\ store' = << >>
        /\ writes' = 1
        /\ outcome' = "killed"
        /\ ResetRun
        /\ UNCHANGED << profile, slot, userLevel, clock, service, pc, file0 >>

\* cmd_undo killed inside save_vocab_data: clear_last_action is not reached
UndoKilled(form) ==
    /\ Begin("undo")
    /\ slot.type = "new"
    /\ ~LoadRaises(doc)
    /\ HasKey(LoadVocab(doc, store), slot.key)
    /\ doc' = form
    /\ store' = << >>
    /\ writes' = 1
    /\ outcome' = "killed"
    /\ ResetRun
    /\ UNCHANGED << profile, slot, userLevel, clock, service, pc, file0 >>

\* the commands of lang.py, any `new` or `undo` of which may be killed
\* inside its save
NextKill ==
    \/ \E force \in BOOLEAN, resp \in AiResponses, form \in KillForms :
          NewKilled(force, NoLevel, resp, form)
    \/ \E form \in KillForms : UndoKilled(form)
    \/ NextLang

SpecKill == Init /\ [][NextKill]_vars

\* ===================================================================
\* Properties
\* ===================================================================

\* the lookupKey an entry is meant to have: its primary, lower-cased when
\* the profile has case-insensitive keys
Normalize(p) == IF ci THEN Lower(p) ELSE p

\* C1: after any sequence of new, import, undo and sync, every entry of
\* the store is stored under normalize(its primary) and no two entries have
\* primaries that normalize to the same key.
C1_KeyUniqueness ==
    /\ \A i \in DOMAIN store : store[i].key = Normalize(store[i].primary)
    /\ \A i, j \in DOMAIN store :
          i # j => Normalize(store[i].primary) # Normalize(store[j].primary)

\* C2: a `new` without --force whose enriched primary normalizes to a key of
\* the store reports "already exists" and leaves the document (key set and
\* every entry) and the undo slot as they were.
C2_DuplicateNewRejected ==
    [][cmd' = "new" =>
       \A lvlArg \in {NoLevel, DefaultLevel}, resp \in AiResponses :
          ( /\ ~EnrichFails(resp)
            /\ Normalize(resp.primary) \in Keys(store)
            /\ New(FALSE, lvlArg, resp) )
          => ( outcome' = "exists" /\ store' = store /\ slot' = slot
               /\ writes' = 0 )]_vars

\* C2 witness: with case-insensitive keys, a `new` was rejected while the
\* store holds a word whose primary is written with a capital
C2_Witness ==
    /\ ci
    /\ cmd = "new"
    /\ outcome = "exists"
    /\ \E i \in DOMAIN store : store[i].primary # store[i].key

\* C3 as claimed: a `new` immediately followed by `undo` leaves the key set
\* the store had before the `new`, in every case of `new`.
C3_UndoExactAllCases ==
    [][(cmd = "new" /\ cmd' = "undo") => Keys(store') = keysBefore]_vars

\* C3 amended: a `new` that adds a word under a key that was absent,
\* immediately followed by `undo`, is undone and leaves the key set the
\* store had before the `new`.
C3_UndoExactAfterAdd ==
    [][(cmd = "new" /\ outcome = "added" /\ cmd' = "undo")
          => (outcome' = "undone" /\ Keys(store') = keysBefore)]_vars

\* C3 witness: an added word was undone while another word stays
C3_Witness ==
    /\ cmd = "undo"
    /\ prev = "added"
    /\ outcome = "undone"
    /\ store # << >>

\* C4: after a successful `undo`, a second consecutive `undo` reports
\* nothing to undo and changes neither the store nor the empty slot.
C4_SecondUndoFails ==
    [][(cmd = "undo" /\ outcome = "undone" /\ cmd' = "undo")
          => ( /\ outcome' = "nothing"
               /\ writes' = 0
               /\ store' = store
               /\ slot = NoAction
               /\ slot' = NoAction )]_vars

\* C4 witness: the second undo ran on a store that still holds a word
C4_Witness ==
    /\ cmd = "undo"
    /\ prev = "undone"
    /\ outcome = "nothing"
    /\ store # << >>

\* C5: a sync run right after a sync that ended without failure, the
\* service answering every call, finds no unsynced entry: it creates and
\* updates nothing.
C5_IdempotentSync ==
    ( /\ cmd = "sync"
      /\ prev = "synced"
      /\ pc = "idle"
      /\ outcome \notin {"noconn", "interrupted"}
      /\ failed_count = 0 )
    => ( outcome = "allsynced" /\ created_count = 0 /\ updated_count = 0 )

\* C6: at the end of a run, the loop has passed over every unsynced entry,
\* failed counts the entries with a failing call, each of them still has no
\* note id, every other one has a note id, and the entries a follow-up sync
\* would take are exactly the failed ones.
C6_PartialFailureIsolation ==
    (cmd = "sync" /\ outcome = "synced")
    => ( /\ Len(results) = Len(words_to_sync)
         /\ failed_count =
               Cardinality({ p \in DOMAIN results : results[p] = "failed" })
         /\ \A p \in DOMAIN results :
               (results[p] = "failed")
                  <=> (vocab_data[words_to_sync[p]].note = NoNote)
         /\ { store[i].key : i \in { j \in DOMAIN store :
                                        store[j].note = NoNote } }
               = { vocab_data[words_to_sync[p]].key :
                      p \in { q \in DOMAIN results : results[q] = "failed" } } )

\* the word the loop of cmd_sync has just passed over
Passed == vocab_data[words_to_sync[pos - 1]]

Called(op) == Cardinality({ i \in DOMAIN calls : calls[i] = op })

\* C7: for the entry just passed over: an update means the search was made
\* and found a note, field-update was called once, create was not, and the
\* entry carries the first note the search returns; a create means the
\* search found nothing, create was called once, field-update was not, and
\* the entry carries the id of the new note; never both calls.
C7_UpdateOrCreate ==
    (cmd = "sync" /\ pos > 1)
    => ( /\ ~(Called("updateNoteFields") > 0 /\ Called("addNote") > 0)
         /\ results[pos - 1] = "updated" =>
               ( /\ Called("findNotes") = 1
                 /\ Called("updateNoteFields") = 1
                 /\ Called("addNote") = 0
                 /\ FindFrom(cards, Passed.primary, 1) # << >>
                 /\ Passed.note = FindFrom(cards, Passed.primary, 1)[1] )
         /\ results[pos - 1] = "created" =>
               ( /\ Called("findNotes") = 1
                 /\ Called("addNote") = 1
                 /\ Called("updateNoteFields") = 0
                 /\ FindFrom(cards, Passed.primary, 1) = << Len(cards) >>
                 /\ Passed.note = Len(cards) ) )

\* C8: from an empty store, new("bo") at level 1 leaves exactly one entry,
\* under the key "bo", with no note id; a following sync, the service
\* holding no note for "bo" and answering every call, creates one note and
\* records its id: created = 1, updated = 0, failed = 0.
C8_NewThenSync ==
    /\ ( /\ cmd = "new"
         /\ outcome = "added"
         /\ keysBefore = {}
         /\ \E i \in DOMAIN store : store[i].primary = <<"b", "o">> )
       => ( /\ Len(store) = 1
            /\ store[1].key = <<"b", "o">>
            /\ store[1].level = 1
            /\ store[1].note = NoNote )
    /\ ( /\ cmd = "sync"
         /\ prev = "added"
         /\ outcome = "synced"
         /\ Len(store) = 1
         /\ store[1].primary = <<"b", "o">>
         /\ \A id \in DOMAIN cards0 : cards0[id].primary # <<"b", "o">>
         /\ failed_count = 0 )
       => ( /\ created_count = 1
            /\ updated_count = 0
            /\ cards = Append(cards0, cards[Len(cards)])
            /\ cards[Len(cards)].primary = <<"b", "o">>
            /\ store[1].key = <<"b", "o">>
            /\ store[1].note = Len(cards) )

\* C8 witness: the sync of the scenario has ended, with another note in
\* the service
C8_Witness ==
    /\ cmd = "sync"
    /\ prev = "added"
    /\ outcome = "synced"
    /\ Len(store) = 1
    /\ store[1].primary = <<"b", "o">>
    /\ created_count = 1
    /\ Len(cards0) = 1

\* C9: a run that enters the loop writes the document once, with the pass
\* over the last entry and not before, however many entries failed.
C9_PersistOnceAfterLoop ==
    [][(pc = "sync")
          => ( /\ pc' = "sync" => (store' = store /\ writes' = 0)
               /\ outcome' = "synced" =>
                     ( /\ pos' = Len(words_to_sync) + 1
                       /\ writes' = 1
                       /\ store' = SaveVocab(vocab_data') ) )]_vars

\* C9 witness: a run over two entries has ended, both failed, one write
C9_Witness ==
    /\ cmd = "sync"
    /\ outcome = "synced"
    /\ Len(words_to_sync) = 2
    /\ failed_count = 2
    /\ writes = 1

\* C10: an interrupted run leaves the document as it was; the complete run
\* that follows, the service answering every call, leaves one note per
\* primary value in the service and every entry with the id of the note
\* of its primary.
C10_InterruptThenResync ==
    /\ [][(pc = "sync" /\ outcome' = "interrupted") => store' = store]_vars
    /\ []( ( /\ cmd = "sync"
             /\ prev = "interrupted"
             /\ outcome = "synced"
             /\ failed_count = 0 )
           => ( /\ \A i, j \in DOMAIN cards :
                      i # j => cards[i].primary # cards[j].primary
                /\ \A i \in DOMAIN store :
                      /\ store[i].note \in DOMAIN cards
                      /\ cards[store[i].note].primary = store[i].primary ) )

\* C11: save replaces the document atomically: at every instant, also
\* inside a save and after the process was killed inside one, the file is
\* a complete document (or still missing), never empty, truncated or partly
\* written; inside a save it is the complete previous document or the
\* complete new one.
C11_AtomicSave ==
    /\ doc \in {"missing", "ok"}
    /\ pc = "save" =>
          File(doc, store) \in { file0, File("ok", SaveVocab(vocab_data)) }

\* C12: load returns the empty mapping when the document is missing and
\* when it is malformed, without raising and without modifying the
\* document; for a well-formed document it returns the persisted mapping.
C12_LoadLenient ==
    [][FileLoad =>
          ( /\ outcome' # "raised"
            /\ doc' = doc
            /\ store' = store
            /\ vocab_data' = (IF doc = "ok" THEN store ELSE << >>) )]_vars

\* C13: for any mapping M in memory (also with equal or missing `added`),
\* save(load(save(M))) leaves the same document, in the same entry order,
\* as save(M): a save that follows the load of a saved document leaves the
\* document that save began with.
C13_RoundTrip ==
    (pc = "idle" /\ outcome = "saved" /\ prev = "reloaded")
       => File(doc, store) = file0

\* C13 witness: the round trip of two entries without `added`
C13_Witness ==
    /\ pc = "idle"
    /\ outcome = "saved"
    /\ prev = "reloaded"
    /\ Len(store) = 2
    /\ store[1].added = NoAdded
    /\ store[2].added = NoAdded

\* entries in descending `added` order, an entry without `added` counting
\* as '1970-01-01'
Descending(s) ==
    \A i, j \in DOMAIN s : i < j => SortKey(s[i]) >= SortKey(s[j])

\* C14: after every `new`, `undo` and `sync` that wrote the document, its
\* entries are in descending `added` order, whatever order the document had
\* when the command loaded it.
C14_PersistedDescending ==
    (pc = "idle" /\ cmd \in {"new", "undo", "sync"} /\ writes > 0)
       => Descending(store)

\* C14 witness: a sync has written, newest first, the two entries of a
\* document it loaded oldest first
C14_Witness ==
    /\ pc = "idle"
    /\ cmd = "sync"
    /\ outcome = "synced"
    /\ writes > 0
    /\ Len(vocab_data) = 2
    /\ ~Descending(vocab_data)

\* C15: every failing undo clears the slot: an undo run when the slot is
\* empty or names no `new` action, or when the key it names is not in the
\* store, leaves the slot empty and the store as it was.
C15_FailingUndoClearsSlot ==
    [][( /\ pc = "idle"
         /\ cmd' = "undo"
         /\ outcome' # "killed"
         /\ (slot.type # "new" \/ ~HasKey(store, slot.key)) )
          => (slot' = NoAction /\ store' = store /\ doc' = doc)]_vars

\* C15 without the documents that load_vocab_data cannot read: the undos
\* that report nothing to undo or a key not found
C15_ReportedFailures ==
    [][(cmd' = "undo" /\ outcome' \in {"nothing", "stale"})
          => (slot' = NoAction /\ store' = store /\ doc' = doc)]_vars

\* a stale undo has happened
C15_StaleReached == cmd = "undo" /\ outcome = "stale"

\* C16: undo is one level deep.  The slot holds one record at most, and a
\* successful `new` overwrites it with {type: new, key: the key it wrote};
\* after new(A) and new(B), both adding, the first undo removes B alone and
\* the next undo fails and removes nothing.
C16_OneLevelUndo ==
    [][ /\ (slot' = NoAction \/ slot'.type = "new")
        /\ (cmd' = "new" /\ outcome' \in {"added", "replaced"})
              => \E i \in DOMAIN store' :
                    /\ store'[i].added = clock'
                    /\ slot' = NewAction(store'[i].key)
        /\ (cmd = "new" /\ outcome = "added" /\ prev = "added"
                /\ cmd' = "undo")
              => (outcome' = "undone" /\ store' = Tail(store))
        /\ (cmd = "undo" /\ outcome = "undone" /\ prev = "added"
                /\ cmd' = "undo")
              => (outcome' = "nothing" /\ store' = store) ]_vars

\* C16 witness: after the second undo, the word added first is still in
\* the store and the word added second is not
C16_Witness ==
    /\ cmd = "undo"
    /\ prev = "undone"
    /\ outcome = "nothing"
    /\ clock = 2
    /\ \E i \in DOMAIN store : store[i].added = 1
    /\ \A i \in DOMAIN store : store[i].added # 2
    /\ cards = << >>

\* no key of the document disappears in a step that is not a successful undo
KeysStay ==
    (cmd' = "undo" /\ outcome' = "undone") \/ Keys(store) \subseteq Keys(store')

\* no entry that stays under its key changes in a step that is not of sync
EntriesStay ==
    cmd' = "sync" \/ \A i \in DOMAIN store, j \in DOMAIN store' :
                        store[i].key = store'[j].key => store[i] = store'[j]

\* C17: undo is the only deletion path: no command other than a successful
\* undo makes a key of the persisted store disappear, and no command other
\* than sync changes a field of an entry that stays in the store.
C17_OnlyUndoDeletes == [][KeysStay /\ EntriesStay]_vars

\* no entry that stays under its key changes in a step that is not of
\* sync, but the entry a `new --force` replaces
EntriesStayOrReplaced ==
    cmd' = "sync" \/ \A i \in DOMAIN store, j \in DOMAIN store' :
                        store[i].key = store'[j].key =>
                           \/ store[i] = store'[j]
                           \/ /\ cmd' = "new"
                              /\ outcome' = "replaced"
                              /\ slot' = NewAction(store'[j].key)

\* C17 amended: no command other than a successful undo makes a key of the
\* persisted store disappear, and no command other than sync and a
\* `new --force` that replaces the entry under its key changes a field of
\* an entry that stays in the store.
C17_OnlyUndoDeletesForceReplaces == [][KeysStay /\ EntriesStayOrReplaced]_vars

\* C17 witness: a `new --force` has replaced the entry of a key, which
\* stays with a newer timestamp
C17_Witness ==
    /\ cmd = "new"
    /\ outcome = "replaced"
    /\ keysBefore = Keys(store)
    /\ \E i \in DOMAIN store : store[i].added = clock /\ clock > 1

\* C18: an entry is deleted by undo only immediately after its creation:
\* an undo that removes an entry follows directly the `new` that wrote it,
\* and the entry it removes has no note id.
C18_UndoOnlyRightAfterNew ==
    [][(cmd' = "undo" /\ outcome' = "undone")
          => ( /\ cmd = "new"
               /\ outcome \in {"added", "replaced"}
               /\ \A i \in DOMAIN store :
                     store[i].key = slot.key => store[i].note = NoNote )]_vars

\* C18 amended: an undo that removes an entry removes the one under the key
\* the slot names and no other, and a sync, a level, an import and a
\* rejected or failed `new` leave the slot as it is: the entry written by
\* the last successful `new` is removed also after such commands, with or
\* without a note id.
C18_UndoRemovesSlotKey ==
    [][ /\ (cmd' = "undo" /\ outcome' = "undone")
              => ( /\ slot.type = "new"
                   /\ HasKey(store, slot.key)
                   /\ store' = SelectSeq(store, LAMBDA e : e.key # slot.key) )
        /\ ( \/ cmd' \in {"sync", "level", "import"}
             \/ (cmd' = "new" /\ outcome' \in {"exists", "error"}) )
              => slot' = slot ]_vars

\* C18 witness: an undo right after a sync has removed the only entry, whose
\* note stays in the service
C18_Witness ==
    /\ cmd = "undo"
    /\ outcome = "undone"
    /\ prev = "synced"
    /\ store = << >>
    /\ Len(cards) = 1

\* the slot names the key of the entry the command has just written
NamesWritten ==
    \E i \in DOMAIN store' :
       /\ store'[i].added = clock'
          /\ slot'.type = "new"
          /\ slot'.key = store'[i].key

\* C19: the slot is a record of the last store-mutating command: after
\* every new, new --force, import and sync that changed the document, the
\* slot describes that command.
C19_SlotRecordsLastMutation ==
    [][(store' # store /\ cmd' \in {"new", "import", "sync"})
          => ( /\ slot'.type = cmd'
               /\ cmd' = "new" => NamesWritten )]_vars

\* C19 amended: the slot is a record of the last successful `new` that no
\* undo has taken back: a new that changes the document leaves the slot
\* naming the key it wrote, an undo that changes the document empties the
\* slot of the key it removed, and an import or a sync that changes the
\* document leaves the slot as it was.
C19_SlotRecordsLastNew ==
    [][ /\ (store' # store /\ cmd' = "new") => NamesWritten
        /\ (store' # store /\ cmd' = "undo")
              => ( /\ slot.type = "new"
                   /\ ~HasKey(store', slot.key)
                   /\ slot' = NoAction )
        /\ (store' # store /\ cmd' \in {"import", "sync"})
              => slot' = slot ]_vars

\* C19 witness: an undo has removed the word of an older `new` and left
\* the newer word of the import that changed the document after it
C19_Witness ==
    /\ cmd = "undo"
    /\ outcome = "undone"
    /\ clock = 2
    /\ Len(store) = 1
    /\ store[1].added = 2
    /\ Cardinality(keysBefore) = 2

\* the three failures of the enrichment: no service key, a response that
\* is not structured data, a payload without a primary
NoPrimary(resp) ==
    resp.kind = "nokey" \/ resp.kind = "failed" \/ resp.primary = Empty

\* C20: when the enrichment fails in `new`, the command reports the error
\* and writes neither the document nor the slot; with no service key no
\* request is sent to the AI service.
C20_EnrichmentFailureWritesNothing ==
    [][\A resp \in AiResponses :
          ( /\ cmd' = "new"
            /\ NoPrimary(resp)
            /\ \E force \in BOOLEAN, lvlArg \in {NoLevel, DefaultLevel} :
                  New(force, lvlArg, resp) )
          => ( /\ outcome' = "error"
               /\ writes' = 0
               /\ doc' = doc
               /\ store' = store
               /\ slot' = slot
               /\ resp.kind = "nokey" => requests' = 0 )]_vars

\* C20 witness: a `new` without a service key has reported its error with a
\* word in the document and a record in the slot, and has sent no request
C20_Witness ==
    /\ cmd = "new"
    /\ outcome = "error"
    /\ requests = 0
    /\ store # << >>
    /\ slot.type = "new"
    /\ HasKey(store, slot.key)

\* C21: with --force, a `new` whose key is in the document replaces the
\* entry under it: the key set stays, the entry under the key is the newly
\* enriched one, with no note id and a timestamp newer than every other
\* one, and the slot names the key.
C21_ForceReplaces ==
    [][cmd' = "new" =>
       \A lvlArg \in {NoLevel, DefaultLevel}, resp \in AiResponses :
          ( /\ resp.kind = "payload"
            /\ resp.primary # Empty
            /\ Normalize(resp.primary) \in Keys(store)
            /\ New(TRUE, lvlArg, resp) )
          => ( /\ outcome' = "replaced"
               /\ Keys(store') = Keys(store)
               /\ Len(store') = Len(store)
               /\ \E i \in DOMAIN store' :
                     /\ store'[i] =
                          [key     |-> Normalize(resp.primary),
                           primary |-> resp.primary,
                           level   |-> IF lvlArg = NoLevel THEN userLevel
                                       ELSE lvlArg,
                           note    |-> NoNote,
                           added   |-> clock',
                           example |-> resp.example,
                           grammar |-> resp.grammar]
                     /\ \A j \in DOMAIN store' :
                           j # i => ( /\ store'[j].added < clock'
                                      /\ \E h \in DOMAIN store :
                                            store[h] = store'[j] )
               /\ slot'.type = "new"
               /\ slot'.key = Normalize(resp.primary) )]_vars

\* C21 witness: with a card in the service, a forced `new` has put an entry
\* without a note id under a key the document had
C21_Witness ==
    /\ cmd = "new"
    /\ outcome = "replaced"
    /\ keysBefore = Keys(store)
    /\ slot.type = "new"
    /\ \E i \in DOMAIN store :
          /\ store[i].key = slot.key
          /\ store[i].added = clock
          /\ store[i].note = NoNote
    /\ cards # << >>

\* the word of the pass of the loop that is about to run
Word == vocab_data[words_to_sync[pos]]

\* the step is a pass of the loop that has created a card
Creates == pc = "sync" /\ Len(cards') = Len(cards) + 1

\* C22: with a deck per level, the card created for an entry whose level is
\* in the special table (a numeric level 0 included) is filed in the deck
\* of the special name, and the card of any other entry in the deck
\* deck_prefix + level of the entry's own level.
C22_LevelContainers ==
    [][(use_levels /\ Creates)
          => cards'[Len(cards')].deck =
                IF Word.level \in special
                THEN Deck("deck_prefix", "", "special", Word.level)
                ELSE Deck("deck_prefix", "", "level", Word.level)]_vars

\* C23: with a single flat deck (use_levels false), the card created for
\* an entry, whatever its level, is filed in the one deck whose name is the
\* configured deck_name.
C23_FlatContainer ==
    [][(~use_levels /\ Creates)
          => cards'[Len(cards')].deck = Deck("deck_name", "", "none", 0)]_vars

\* the level cmd_sync reads in the word of the pass: the default level for
\* a word whose level is 0
ReadLevel == IF Word.level = 0 THEN DefaultLevel ELSE Word.level

\* C23 amended: with use_levels false, the card created for an entry whose
\* level, as read by sync, is not in the special table is filed in the one
\* deck whose name is the configured deck_name, and the card of an entry
\* whose level is in the table in the deck deck_name::special name.
C23_FlatContainerUnlessSpecial ==
    [][(~use_levels /\ Creates)
          => cards'[Len(cards')].deck =
                IF ReadLevel \in special
                THEN Deck("deck_name", "::", "special", ReadLevel)
                ELSE Deck("deck_name", "", "none", 0)]_vars

\* C23 witness: a flat profile has a card in the configured deck and one
\* in the deck of a special name
C23_Witness ==
    /\ ~use_levels
    /\ \E i, j \in DOMAIN cards :
          /\ cards[i].deck = Deck("deck_name", "", "none", 0)
          /\ cards[j].deck.kind = "special"
          /\ cards[j].deck.sep = "::"

\* the step is a pass of the loop that has called createDeck
CreatesDeck == pc = "sync" /\ Len(deck_calls') = Len(deck_calls) + 1

\* createDeck is called right after a deckNames that does not list the
\* deck and before any other call of the pass, and a card is created only
\* in a deck the service has
CreateDeckWhenAbsent ==
    /\ CreatesDeck =>
          /\ deck_calls'[Len(deck_calls')].name \notin decks
          /\ Len(calls') >= 2
          /\ calls'[1] = "deckNames"
          /\ calls'[2] = "createDeck"
          /\ \A i \in DOMAIN calls' : calls'[i] = "createDeck" => i = 2
    /\ Creates =>
          /\ cards'[Len(cards')].deck \in decks'
          /\ calls'[Len(calls')] = "addNote"
          /\ \A i \in DOMAIN calls' : calls'[i] = "addNote" => i = Len(calls')

\* C24: in a run of sync createDeck is called only for a deck that the
\* deckNames just before does not list, before the first card is written
\* into it, and at most once for each deck name; no card is created in a
\* deck the service does not have.
C24_CreateDeckOnce ==
    [][CreateDeckWhenAbsent
       /\ \A i, j \in DOMAIN deck_calls' :
             deck_calls'[i].name = deck_calls'[j].name => i = j]_vars

\* C24 amended: the same, but createDeck is called again for a deck name in
\* the same run when every earlier call for that name has raised: it
\* returns at most once for each deck name.
C24_CreateDeckReturnsOnce ==
    [][CreateDeckWhenAbsent
       /\ \A i, j \in DOMAIN deck_calls' :
             (i < j /\ deck_calls'[i].name = deck_calls'[j].name)
                => ~deck_calls'[i].ok]_vars

\* C24 witness: a run has created two decks, each by one call, has called
\* createDeck for neither a second time, and has put a card in each
C24_Witness ==
    /\ cmd = "sync"
    /\ outcome = "synced"
    /\ Len(deck_calls) = 2
    /\ deck_calls[1].ok /\ deck_calls[2].ok
    /\ created_count = 2
    /\ Len(cards) = 2
    /\ cards[1].deck # cards[2].deck

\* the step is a pass of the loop that has created or updated a card
Sends ==
    /\ pc = "sync"
    /\ Len(results') = Len(results) + 1
    /\ results'[Len(results')] # "failed"

\* the card the pass has written, found by the id the entry has got
Card == cards'[vocab_data'[words_to_sync[pos]].note]

\* the example, the markup, the grammar note and the closing markup
WithGrammar(text, grammar) ==
    Str(text \o << SepOpen >> \o grammar \o << SepClose >>)

\* C25: on the create and on the update branch, the example field sent to
\* the service is the raw example of the entry when the grammar note is
\* empty, and the raw example followed by the separator and the note when
\* it is not (stated for an example that is a string); the primary field
\* carries the primary of the entry.
C25_ExampleIsRaw ==
    [][Sends =>
          /\ Word.grammar = Empty => Card.example = Word.example
          /\ (Word.grammar # Empty /\ Word.example.form = "str")
                => Card.example =
                      WithGrammar(Word.example.items[1], Word.grammar)
          /\ Card.primary = Word.primary]_vars

\* the example text of an entry, by positions: of a list that is not
\* empty the first element, from its first to its last character that is
\* not a blank before the first '|' (all of it without a '|')
FirstSentence(raw) ==
    IF raw.form = "str" \/ raw.items = << >> THEN raw
    ELSE LET first == raw.items[1]
             bars  == { i \in DOMAIN first : first[i] = "|" }
             bar   == CHOOSE i \in bars : \A j \in bars : i <= j
             inner == { i \in 1..(bar - 1) : first[i] # " " }
             from  == CHOOSE i \in inner : \A j \in inner : i <= j
             to    == CHOOSE i \in inner : \A j \in inner : i >= j
         IN  IF bars = {} THEN Str(first)
             ELSE IF inner = {} THEN Str(Empty)
             ELSE Str(SubSeq(first, from, to))

\* C25 amended: the example sent is built from the example text of the
\* entry: for a list that is not empty its first element, cut before the
\* first '|' and stripped of blanks when it has a '|'; for any other value
\* the value itself.  It is that text when the grammar note is empty, and
\* that text (the empty list as '[]') followed by the separator and the
\* note when it is not.  The primary field carries the primary of the
\* entry, and the Lesson field, sent only by a profile with use_levels
\* that maps it, the level as sync reads it.
C25_ExampleIsFirstSentence ==
    [][Sends =>
          /\ Card.example =
                LET text == FirstSentence(Word.example)
                IN  IF Word.grammar = Empty THEN text
                    ELSE WithGrammar(
                           IF text.form = "str" THEN text.items[1]
                           ELSE << "[", "]" >>, Word.grammar)
          /\ Card.primary = Word.primary
          /\ Card.lesson = IF use_levels /\ lesson_mapped THEN ReadLevel
                           ELSE NoLesson]_vars

\* C25 witness: the card of an entry whose example is a list and whose
\* grammar note is not empty has been updated: its example field is the
\* first sentence, the separator and the note
C25_Witness ==
    /\ cmd = "sync"
    /\ updated_count = 1
    /\ Len(cards) = 1
    /\ cards[1].example =
          WithGrammar(<< "e" >>, << "g" >>)
    /\ \E i \in DOMAIN store :
          /\ store[i].note = 1
          /\ store[i].grammar = << "g" >>
          /\ store[i].example =
                List(<< << "e", " ", "|", " ", "t" >>, << "f" >> >>)

\* C26: when two unsynced entries of the document have the same primary, a
\* sync without service error leaves both with the id of the same card:
\* the second one of the run is updated, and both entries carry one id
\* that is not null.
C26_DuplicatesShareId ==
    (cmd = "sync" /\ pc = "idle" /\ outcome = "synced" /\ failed_count = 0)
       => \A a, b \in DOMAIN words_to_sync :
             ( /\ a < b
               /\ vocab_data[words_to_sync[a]].primary
                     = vocab_data[words_to_sync[b]].primary )
             => ( /\ results[b] = "updated"
                  /\ vocab_data[words_to_sync[a]].note # NoNote
                  /\ vocab_data[words_to_sync[a]].note
                        = vocab_data[words_to_sync[b]].note )

\* C27: an entry of the document has a note id only if the service has
\* confirmed a create or an update for that entry, and the id is then that
\* of a card whose primary field is the primary of the entry: an entry
\* that was unsynced when a run began and whose pass failed has no note id
\* when the run ends.
C27_IdOnlyWhenConfirmed ==
    /\ \A i \in DOMAIN store :
          store[i].note # NoNote
             => ( /\ store[i].note \in DOMAIN cards
                  /\ cards[store[i].note].primary = store[i].primary )
    /\ (cmd = "sync" /\ pc = "idle" /\ outcome = "synced")
          => \A a \in DOMAIN words_to_sync :
                results[a] = "failed"
                   => vocab_data[words_to_sync[a]].note = NoNote

\* the entries of a document without a note id
UnsyncedIn(data) == { i \in DOMAIN data : data[i].note = NoNote }

\* the passes of the run that ended as r
Ended(r) == Cardinality({ a \in DOMAIN results : results[a] = r })

\* C28: a transport error of the flashcard service, at the first call of
\* sync or at a later one, does not abort the batch: when the command has
\* ended, every unsynced entry is counted as created, updated or failed
\* and the document has been written.
C28_ErrorsNeverAbort ==
    (cmd = "sync" /\ pc = "idle" /\ outcome \in {"noconn", "synced"})
       => LET n == IF outcome = "noconn"
                   THEN Cardinality(UnsyncedIn(LoadVocab(doc, store)))
                   ELSE Len(words_to_sync)
          IN  /\ created_count + updated_count + failed_count = n
              /\ n > 0 => writes = 1

\* C28 amended: once the connection check at the start of sync has passed,
\* an error of any later call does not abort the batch: the run starts
\* with exactly the unsynced entries, a pass that fails counts one failed
\* entry and the run goes on, and when it has ended every one of these
\* entries is counted as created, updated or failed and the document has
\* been written once.  When the connection check fails, sync reports it
\* and ends before the batch: nothing is counted and nothing is written.
C28_ErrorsAfterCheckNeverAbort ==
    /\ (pc = "sync" /\ pos = 1)
          => ( /\ vocab_data = LoadVocab(doc, store)
               /\ { words_to_sync[a] : a \in DOMAIN words_to_sync }
                     = UnsyncedIn(vocab_data)
               /\ words_to_sync # << >> )
    /\ pc = "sync"
          => ( /\ pos <= Len(words_to_sync)
               /\ Len(results) = pos - 1 )
    /\ (cmd = "sync" /\ outcome \in {"running", "synced"})
          => ( /\ failed_count = Ended("failed")
               /\ created_count = Ended("created")
               /\ updated_count = Ended("updated") )
    /\ (cmd = "sync" /\ pc = "idle" /\ outcome = "synced")
          => ( /\ Len(results) = Len(words_to_sync)
               /\ created_count + updated_count + failed_count
                     = Len(words_to_sync)
               /\ writes = 1
               /\ doc = "ok"
               /\ store = SaveVocab(vocab_data) )
    /\ (cmd = "sync" /\ outcome = "noconn")
          => ( /\ pc = "idle"
               /\ created_count + updated_count + failed_count = 0
               /\ writes = 0 )

\* C28 witness: a run over two entries has ended after the pass of the
\* first one failed and the pass of the second one created a card
C28_Witness ==
    /\ cmd = "sync"
    /\ pc = "idle"
    /\ outcome = "synced"
    /\ results = << "failed", "created" >>
    /\ failed_count = 1
    /\ created_count = 1
    /\ writes = 1
    /\ \E i \in DOMAIN store : store[i].note # NoNote

Places(name) == { a \in DOMAIN steps : steps[a] = name }

\* every step named second comes after a step named first
After(first, second) ==
    \A b \in Places(second) : \E a \in Places(first) : a < b

\* C30: a `new` command reads the document, then calls the enrichment
\* service, then writes the document, then writes the slot: no request
\* is sent before the document has been read and the slot is not written
\* before the document has been written.
C30_ReadEnrichWriteSlot ==
    cmd = "new"
       => /\ After("read", "request")
          /\ After("request", "write")
          /\ After("write", "slot")

\* C30 amended: a `new` command calls the enrichment service, then reads
\* the document, then writes the document, then writes the slot: the
\* document is not read before the request has been answered with a
\* primary, it is not written before it has been read, and the slot is
\* not written before the document has been written; a `new` that adds
\* or replaces does the four steps, one that finds the key does the first
\* two.
C30_EnrichReadWriteSlot ==
    cmd = "new"
       => /\ After("request", "read")
          /\ After("read", "write")
          /\ After("write", "slot")
          /\ \A name \in {"request", "read", "write", "slot"} :
                Cardinality(Places(name)) <= 1
          /\ Cardinality(Places("request")) = requests
          /\ Cardinality(Places("write")) = writes
          /\ outcome \in {"added", "replaced"}
                => \A name \in {"request", "read", "write", "slot"} :
                      Places(name) # {}
          /\ outcome = "exists"
                => (steps = << "request", "read" >> /\ writes = 0)
          /\ outcome = "error" => Places("write") = {}

\* C30 witness: a `new` has added a word: it has sent its request, read
\* and written the document and written the slot, in this order
C30_Witness ==
    /\ cmd = "new"
    /\ outcome = "added"
    /\ requests = 1
    /\ writes = 1
    /\ steps = << "request", "read", "write", "slot" >>
    /\ slot.type = "new"
    /\ \E i \in DOMAIN store : store[i].key = slot.key

\* the entries that are unsynced in the document as the run found it, or
\* as a run that has ended before its batch has left it
Todo ==
    IF outcome \in {"running", "synced"} THEN Len(words_to_sync)
    ELSE Cardinality(UnsyncedIn(LoadVocab(doc, store)))

\* C31: every sync run that is not killed ends after it has processed each
\* entry that was unsynced at its start once and has then written the
\* document, even when every call of the service fails.
C31_EveryRunPersists ==
    (cmd = "sync" /\ pc = "idle" /\ outcome # "interrupted")
       => /\ Len(results) = Todo
          /\ Todo > 0 => writes = 1

\* inside the loop: the words of the run are distinct entries in the order
\* of the document, one pass has been made for each word before the
\* current one, and no call was made twice in the last pass
RunInOrder ==
    pc = "sync"
       => /\ \A a, b \in DOMAIN words_to_sync :
                a < b => words_to_sync[a] < words_to_sync[b]
          /\ pos \in 1..Len(words_to_sync)
          /\ Len(results) = pos - 1
          /\ \A a, b \in DOMAIN calls : a # b => calls[a] # calls[b]

\* a pass goes on to the next word, whatever its result, and makes every
\* call at most once
OnePassEach ==
    (pc = "sync" /\ cmd' = "sync")
       => /\ pos' = pos + 1
          /\ words_to_sync' = words_to_sync
          /\ Len(results') = Len(results) + 1
          /\ \A a, b \in DOMAIN calls' : a # b => calls'[a] # calls'[b]
          /\ pc' = "idle" <=> pos = Len(words_to_sync)
          /\ pc' = "idle" => (writes' = 1 /\ store' = SaveVocab(vocab_data'))

\* C31 amended: every sync run that has passed the connection check and
\* found unsynced entries terminates: it processes each of these entries
\* once, in the order of the document, makes each call of the service at
\* most once for an entry with no retry of a failed call, and then writes
\* the document, even when every later call fails.  A run whose
\* connection check fails ends before the batch and writes nothing.
C31_RunTerminates ==
    /\ []RunInOrder
    /\ [][OnePassEach]_vars
    /\ [](cmd = "sync" /\ outcome = "noconn" => writes = 0 /\ results = << >>)
    /\ pc = "sync" ~> (pc = "idle" /\ outcome = "synced" /\ writes = 1
                       /\ Len(results) = Len(words_to_sync))

\* C31 witness: a run over two entries has ended with the document
\* written although every pass has failed
C31_Witness ==
    /\ cmd = "sync"
    /\ pc = "idle"
    /\ outcome = "synced"
    /\ results = << "failed", "failed" >>
    /\ writes = 1
    /\ \A i \in DOMAIN store : store[i].note = NoNote

\* C32: import adds an entry only for a row whose key is not empty and is
\* not in the document, one entry for a key however often the file has
\* it, with no note id and without a request to the AI service, and it
\* leaves every entry that was in the document and the slot as they were.
C32_ImportAddsAbsentKeys ==
    [][cmd' = "import"
          => \A rows \in CsvFiles :
                Import(rows)
                   => LET fresh == { rows[a] : a \in DOMAIN rows }
                                      \ ({Empty} \cup Keys(store))
                      IN  /\ requests' = 0
                          /\ slot' = slot
                          /\ Len(store') = Len(store) + Cardinality(fresh)
                          /\ \A i \in DOMAIN store :
                                \E j \in DOMAIN store' : store'[j] = store[i]
                          /\ \A k \in fresh :
                                \E j \in DOMAIN store' :
                                   /\ store'[j].key = k
                                   /\ store'[j].primary = k
                                   /\ store'[j].note = NoNote
                                   /\ store'[j].level = userLevel]_vars

\* C32 witness: an import has added one entry without a note id to a
\* document that had one whose word is in the service, and the slot names
\* the word added last by `new`
C32_Witness ==
    /\ cmd = "import"
    /\ outcome = "imported"
    /\ writes = 1
    /\ requests = 0
    /\ Cardinality(keysBefore) = 1
    /\ Len(store) = 2
    /\ slot.type = "new"
    /\ slot.key \in keysBefore
    /\ \E i, j \in DOMAIN store :
          /\ store[i].key \in keysBefore
          /\ store[i].note # NoNote
          /\ store[j].key \notin keysBefore
          /\ store[j].note = NoNote

\* C33: the level stored on a new entry is the value of --level when the
\* flag is given and the current level otherwise; the current level is the
\* one the last `level` command has set, the default one when there was
\* none, and `new`, with or without --level, leaves it as it is.
C33_LevelOfNewEntry ==
    /\ userLevel = DefaultLevel
    /\ [][/\ userLevel' # userLevel => cmd' = "level"
          /\ cmd' = "level" => \A l \in Levels : Level(l) => userLevel' = l
          /\ cmd' = "new"
                => \A force \in BOOLEAN, lvlArg \in {NoLevel} \cup ProfileLevels,
                      resp \in Payloads :
                      (New(force, lvlArg, resp)
                          /\ outcome' \in {"added", "replaced"})
                         => \E i \in DOMAIN store' :
                               /\ store'[i].key = slot'.key
                               /\ store'[i].added = clock'
                               /\ store'[i].level =
                                     IF lvlArg = NoLevel THEN userLevel
                                     ELSE lvlArg]_vars

\* C33 witness: with the current level set to 2, a word was added at
\* another level and the word added after it is at level 2
C33_Witness ==
    /\ cmd = "new"
    /\ outcome = "added"
    /\ userLevel = 2
    /\ \E i, j \in DOMAIN store :
          /\ store[j].key = slot.key
          /\ store[j].level = 2
          /\ store[i].level \notin {2, DefaultLevel}
          /\ store[i].added < store[j].added

\* the entry differs from the one it was in its note id at most, and in
\* that only when it had none
NoteIdOnly(was, is) ==
    /\ is.key = was.key
    /\ [is EXCEPT !.note = was.note] = was
    /\ was.note # NoNote => is.note = was.note

\* C34: sync changes nothing in the document but the note id of entries
\* that had none when the run started: the keys stay, every other field of
\* every entry stays, the note id of an entry that had one stays, and a
\* pass of the loop is made only for an entry that had none.
C34_SyncWritesNoteIdsOnly ==
    [][cmd' = "sync"
          => /\ Keys(store') = Keys(store)
             /\ Len(store') = Len(store)
             /\ \A i \in DOMAIN store :
                   \E j \in DOMAIN store' : NoteIdOnly(store[i], store'[j])
             /\ (pc = "sync" /\ calls' # << >>)
                   => /\ store[words_to_sync[pos]].note = NoNote
                      /\ vocab_data[words_to_sync[pos]].note = NoNote
                      /\ store[words_to_sync[pos]].key
                            = vocab_data[words_to_sync[pos]].key]_vars

\* C34 witness: a run has ended on a document of two entries, one of which
\* had its note id from an earlier run: it has it still, and the other one
\* has the id of the card created for it in this run
C34_Witness ==
    /\ cmd = "sync"
    /\ pc = "idle"
    /\ outcome = "synced"
    /\ Len(store) = 2
    /\ Len(words_to_sync) = 1
    /\ created_count = 1
    /\ Len(cards0) = 1
    /\ Len(cards) = 2
    /\ \E i, j \in DOMAIN store :
          /\ store[i].note = 1
          /\ store[j].note = 2
          /\ store[i].primary = cards[1].primary
          /\ store[j].primary = cards[2].primary

\* the words of the run that have a note id in memory
Marked == { a \in DOMAIN words_to_sync :
               vocab_data[words_to_sync[a]].note # NoNote }

\* C35: when a pass of sync has counted its entry as created or updated,
\* the note id is recorded on this entry and on no other, so that the
\* entries of the run that have got a note id are as many as created +
\* updated.
C35_IdOnTheEntryItself ==
    (cmd = "sync" /\ outcome \in {"running", "synced"})
       => /\ \A a \in DOMAIN results :
                results[a] \in {"created", "updated"} <=> a \in Marked
          /\ Cardinality(Marked) = created_count + updated_count

\* the entries that words_to_sync names
Batch == { words_to_sync[a] : a \in DOMAIN words_to_sync }

\* C36: at the end of a sync run that has entered its loop, created +
\* updated + failed is the number of entries that were unsynced when the
\* run started, and each of them is counted in exactly one of the three.
C36_TalliesCoverTheBatch ==
    /\ [](pc = "sync"
            => /\ Batch = UnsyncedIn(store)
               /\ Cardinality(Batch) = Len(words_to_sync)
               /\ created_count + updated_count + failed_count = pos - 1)
    /\ [][pc = "sync" => (cmd' = "sync" /\ words_to_sync' = words_to_sync)]_vars
    /\ []((cmd = "sync" /\ pc = "idle" /\ outcome = "synced")
            => /\ created_count + updated_count + failed_count
                     = Len(words_to_sync)
               /\ Len(results) = Len(words_to_sync)
               /\ \A a \in DOMAIN results :
                     results[a] \in {"created", "updated", "failed"}
               /\ created_count = Ended("created")
               /\ updated_count = Ended("updated")
               /\ failed_count = Ended("failed")
               /\ UnsyncedIn(vocab_data) \subseteq Batch)

\* C36 witness: a run over two unsynced entries has ended with the first
\* one counted as created and the second one as failed
C36_Witness ==
    /\ cmd = "sync"
    /\ pc = "idle"
    /\ outcome = "synced"
    /\ Len(words_to_sync) = 2
    /\ results = << "created", "failed" >>
    /\ created_count = 1
    /\ updated_count = 0
    /\ failed_count = 1
    /\ Cardinality(UnsyncedIn(store)) = 1

\* the ids of the cards of the service that have the primary
CardsOf(primary) == { id \in DOMAIN cards : cards[id].primary = primary }

\* the document has one entry, added twice, and the run that has ended
\* began with the entry unsynced and its card, the first one, in the
\* service: the commands were new, sync, new --force and sync
Readded ==
    /\ cmd = "sync"
    /\ pc = "idle"
    /\ outcome = "synced"
    /\ clock = 2
    /\ Len(store) = 1
    /\ Len(cards0) = 1
    /\ cards0[1].primary = store[1].primary

\* a pass for a word that has a card updates this card and records its
\* id, and creates none
UpdatesItsCard ==
    (pc = "sync" /\ cmd' = "sync" /\ CardsOf(Word.primary) # {})
       => /\ updated_count' = updated_count + 1
          /\ created_count' = created_count
          /\ Len(cards') = Len(cards)
          /\ vocab_data'[words_to_sync[pos]].note \in CardsOf(Word.primary)

\* C37: after new, sync, new --force with the same primary and sync, with
\* no error, the second sync has created no card and updated one, the
\* service has one card of the primary, and the entry has the note id the
\* first sync gave it.
C37_ReaddUpdatesTheCard ==
    /\ [](Readded
            => /\ created_count = 0
               /\ updated_count = 1
               /\ Len(cards) = 1
               /\ store[1].note = 1)
    /\ [](\A id, other \in DOMAIN cards :
             cards[id].primary = cards[other].primary => id = other)
    /\ [](\A i \in DOMAIN store :
             store[i].note # NoNote
                => store[i].note \in CardsOf(store[i].primary))
    /\ [][UpdatesItsCard]_vars

\* C37 witness: a word was added, synced, added again with --force and
\* synced again: it has the id of the one card of the service
C37_Witness ==
    /\ Readded
    /\ slot = NewAction(store[1].key)
    /\ store[1].added = 2
    /\ store[1].note = 1
    /\ results = << "updated" >>
    /\ CardsOf(store[1].primary) = {1}

\* the vocabulary file is there and is not a JSON document
Malformed == doc \in {"empty", "truncated", "badutf8"}

\* the file is as it was
SameBytes == doc' = doc /\ store' = store

\* C38: when the vocabulary file is malformed, new, undo and sync leave
\* its bytes as they are: none of them writes a document built from the
\* empty mapping over it.
C38_MalformedIsKept ==
    [][(Malformed /\ cmd' \in {"new", "undo", "sync"} /\ outcome' # "killed")
          => SameBytes]_vars

\* C38 amended: when the vocabulary file is malformed, undo and sync leave
\* its bytes as they are, and so does a new whose enrichment fails or
\* whose load raises (a file cut inside a character); a new that has got
\* its primary and has read the file as the empty mapping writes over it,
\* and when the write has returned the document holds the new entry alone.
C38_OnlyNewOverwritesMalformed ==
    [][(Malformed /\ cmd' \in {"new", "undo", "sync"})
          => /\ cmd' \in {"undo", "sync"} => (SameBytes /\ writes' = 0)
             /\ (cmd' = "new" /\ Places("read")' = {})
                   => (SameBytes /\ writes' = 0)
             /\ (cmd' = "new" /\ doc = "badutf8")
                   => (SameBytes /\ writes' = 0 /\ outcome' = "error")
             /\ (cmd' = "new" /\ Places("read")' # {} /\ doc # "badutf8")
                   => /\ writes' = 1
                      /\ outcome' \in {"added", "killed"}
                      /\ outcome' = "added"
                            => /\ doc' = "ok"
                               /\ Len(store') = 1
                               /\ store'[1].key = slot'.key
                               /\ store'[1].note = NoNote]_vars

\* C38 witness: a new has read a file that was not a JSON document as the
\* empty mapping and has written its entry alone over it, after a word
\* had been synced
C38_Witness ==
    /\ cmd = "new"
    /\ outcome = "added"
    /\ writes = 1
    /\ doc = "ok"
    /\ Len(store) = 1
    /\ keysBefore = {}
    /\ steps = << "request", "read", "recover", "write", "slot" >>
    /\ slot = NewAction(store[1].key)
    /\ cards # << >>

====
